---- MODULE Spec2Model ----
(***************************************************************************)
(* PCDealTracker: the scrape-ingest / deal-detection / delisting engine    *)
(* (backend/app/scrapers/base_scraper.py, msy_scraper.py, run_scraper.py)  *)
(* and the two-pass product merger (scripts/merge_products.py).            *)
(*                                                                         *)
(* Storage is a relational database reached through SQLAlchemy sessions    *)
(* created with autoflush=False (backend/app/dependencies.py:9): an object *)
(* added to a session is invisible to that session's own SQL queries until *)
(* the session is flushed or committed.                                    *)
(***************************************************************************)
EXTENDS Integers, Sequences, FiniteSets, TLC

\* ------------------------------------------------------------------ bounds
MaxRuns    == 2      \* invocations of run_scraper.main
MaxIngests == 3      \* items handed to _update_product_and_detect_deal in total
MaxLen == 4           \* characters of a model string handed to a normalization
MaxWords == 2         \* words of a product name handed to _parse_motherboard
MaxProducts == 3     \* rows of the products table the merger works on

\* --------------------------------------------------------- program constants
WINDOW_DAYS  == 30   \* timedelta(days=30)
DROP_PERCENT == 90   \* previous_price * 0.90
SIMILARITY_THRESHOLD == 96

\* ------------------------------------------------------------- value spaces
NoPrice   == -1                      \* Python None in a price column
Prices    == {1053, 1170, 1300}      \* parsed float prices, in cents
Observed  == Prices \cup {NoPrice}   \* what parse_and_save can hand over
Retailers == {1, 2}
SCRAPE_TASKS == {1, 2}               \* the categories named by a scraper's tasks
Urls      == {1, 2, 3}
UrlRetailer == <<1, 1, 2>>           \* each retailer's own URL namespace
UrlsOf(r) == {u \in Urls : UrlRetailer[u] = r}

AVAILABLE   == "AVAILABLE"
UNAVAILABLE == "UNAVAILABLE"

NoListing == [exists |-> FALSE, current_price |-> NoPrice, previous_price |-> NoPrice,
              status |-> UNAVAILABLE, on_sale |-> FALSE]

VARIABLES
  listings,   \* products table, by URL
  hist,       \* price_history rows, by URL, in insertion order
  now,        \* the clock, in days
  mainpc,     \* position of run_scraper.main
  shutdown,   \* shutdown_event
  runs,       \* number of main() invocations so far
  pc,         \* position of each scrape worker
  observed,   \* scraped_product_urls of each worker
  aborted,    \* the worker left run() because it saw shutdown_event set
  ingests,    \* items ingested so far, over all workers and sessions
  changes,    \* committed ingests that set a new numeric price, by URL (history variable)
  scrapers,   \* ALL_SCRAPERS: the retailers whose scraper main() submits
  reference,  \* the rows of the retailers and categories tables
  skipped,    \* the worker left out a task for lack of its category (history variable)
  ev          \* the operation performed last and what it saw (history variable)

scrapeVars == <<listings, hist, now, mainpc, shutdown, runs, pc, observed, aborted,
                ingests, changes, scrapers, reference, skipped, ev>>

\* the merger reads the columns id, name, category_id and normalized_model of
\* the products table; they are kept apart from the price columns above
VARIABLES
  products,   \* products table, by id: name, category_id, normalized_model
  merged,     \* merged_products rows with their association rows, in insertion order
  merge,      \* position and local variables of each run of the merger
  added,      \* a product was added after the last unmerged query (history variable)
  mergers     \* the processes that run merge_products_with_fuzzy_logic

mergeVars == <<products, merged, merge, added, mergers>>

\* the functions of utils/parsing.py, called on one string
VARIABLES
  fn,          \* the function called last
  arg,         \* its argument
  out,         \* what normalize_model_strict or normalize_model_loose returned
  form_factor, \* attributes["form_factor"] as _parse_motherboard returned it
  calls        \* the calls made so far

parseVars == <<fn, arg, out, form_factor, calls>>

\* ------------------------------------------------------------------ helpers
RECURSIVE SumPrices(_)
SumPrices(s) == IF s = <<>> THEN 0 ELSE Head(s).price + SumPrices(Tail(s))

RECURSIVE MinPrice(_)
\* func.min(PriceHistory.price): NULL (NoPrice) over no rows
MinPrice(s) ==
  IF s = <<>> THEN NoPrice
  ELSE LET m == MinPrice(Tail(s))
       IN IF m = NoPrice \/ Head(s).price < m THEN Head(s).price ELSE m

Truthy(x) == x # NoPrice /\ x # 0      \* Python truth value of an optional float

Recent(s, t) == SelectSeq(s, LAMBDA e : e.date >= t - WINDOW_DAYS)

\* price_str -> (price, status)
StatusOf(p) == IF p = NoPrice THEN UNAVAILABLE ELSE AVAILABLE

\* pending PriceHistory objects get their row (and its date) when flushed
Rows(ps, t) == [i \in 1..Len(ps) |-> [price |-> ps[i], date |-> t]]

\* (mutant) the rows flushed are put before the rows of the table
Flush_Before(st) == [st EXCEPT !.hist = [u \in Urls |-> Rows(st.pend[u], now) \o st.hist[u]],
                               !.pend = [u \in Urls |-> <<>>]]

\* (mutant) the pending rows are dropped and only the products are written
Flush_ProductsOnly(st) == [st EXCEPT !.pend = [u \in Urls |-> <<>>]]

\* Session.flush(): the pending rows of the session become visible rows
Flush(st) == [st EXCEPT !.hist = [u \in Urls |-> st.hist[u] \o Rows(st.pend[u], now)],
                        !.pend = [u \in Urls |-> <<>>]]

\* ---------------------------------------------------------- deal detection
\* lowest_price is not None and current_price <= lowest_price
AllTimeLow(visible, p) ==
  LET lowest_price == MinPrice(visible)
  IN lowest_price # NoPrice /\ p <= lowest_price

\* the prices x for which the double x * 0.90 is above nine tenths of x:
\* 13.0 * 0.90 is 11.700000000000001, while 11.7 * 0.90 is 10.53
RoundedUp == {1300}

\* previous_price and current_price < previous_price * 0.90, in doubles: a
\* price below nine tenths of previous_price is at least a tenth of a cent below
LessThanNineTenths(p, previous_price) ==
  \/ p * 100 < previous_price * DROP_PERCENT
  \/ p * 100 = previous_price * DROP_PERCENT /\ previous_price \in RoundedUp

SignificantDrop(previous_price, p) ==
  Truthy(previous_price) /\ LessThanNineTenths(p, previous_price)

\* avg_price and current_price < avg_price, avg over rows of the last 30 days
BelowAverage(visible, p) ==
  LET rows == Recent(visible, now)
  IN rows # <<>> /\ SumPrices(rows) # 0 /\ p * Len(rows) < SumPrices(rows)

IsDeal(visible, previous_price, p) ==
  \/ AllTimeLow(visible, p)
  \/ SignificantDrop(previous_price, p)
  \/ BelowAverage(visible, p)

\* what one call of _update_product_and_detect_deal saw and did
Ingested(st, u, p, product, appended) ==
  [url |-> u, price |-> p, old |-> st.listings[u], new |-> product,
   visible |-> st.hist[u], pending |-> st.pend[u],
   then |-> IF appended THEN Append(st.pend[u], p) ELSE st.pend[u],
   drop |-> /\ appended /\ st.listings[u].exists
            /\ SignificantDrop(st.listings[u].current_price, p)]

\* (mutant) the history row is added on every price change, a price of None included
UpdateExisting_NoneAppended(st, u, p) ==
  LET product == st.listings[u]
      appended == product.current_price # p
      updated == [product EXCEPT !.previous_price = product.current_price,
                                 !.current_price = p,
                                 !.status = StatusOf(p)]
      result == IF appended
                THEN [updated EXCEPT !.on_sale =
                        IsDeal(st.hist[u], product.current_price, p)]
                ELSE updated
  IN [st EXCEPT !.listings[u] = result,
                !.pend[u] = IF appended THEN Append(@, p) ELSE @,
                !.log = Append(@, Ingested(st, u, p, result, appended))]

\* the branch "if existing_product": the SQL queries of the deal detection see
\* st.hist only, the row added just before them is still pending
UpdateExisting(st, u, p) ==
  LET product == st.listings[u]
      price_changed == product.current_price # p
      appended == price_changed /\ p # NoPrice
      updated == [product EXCEPT !.previous_price = product.current_price,
                                 !.current_price = p,
                                 !.status = StatusOf(p)]
      result == IF appended
                THEN [updated EXCEPT !.on_sale =
                        IsDeal(st.hist[u], product.current_price, p)]
                ELSE updated
  IN [st EXCEPT !.listings[u] = result,
                !.pend[u] = IF appended THEN Append(@, p) ELSE @,
                !.log = Append(@, Ingested(st, u, p, result, appended))]

\* (mutant) a new product is stored with on_sale=False
AddNewProduct_NotOnSale(st, u, p) ==
  LET new_product == [exists |-> TRUE, current_price |-> p, previous_price |-> p,
                      status |-> StatusOf(p), on_sale |-> FALSE]
      flushed == Flush(st)
  IN [flushed EXCEPT !.listings[u] = new_product,
                     !.pend[u] = IF p # NoPrice THEN <<p>> ELSE <<>>,
                     !.log = Append(@, Ingested(st, u, p, new_product, p # NoPrice))]

\* the branch "else": add the product, flush, then add its first history row
AddNewProduct(st, u, p) ==
  LET new_product == [exists |-> TRUE, current_price |-> p, previous_price |-> p,
                      status |-> StatusOf(p), on_sale |-> TRUE]
      flushed == Flush(st)
  IN [flushed EXCEPT !.listings[u] = new_product,
                     !.pend[u] = IF p # NoPrice THEN <<p>> ELSE <<>>,
                     !.log = Append(@, Ingested(st, u, p, new_product, p # NoPrice))]

UpdateProductAndDetectDeal(st, u, p) ==
  LET seen == [st EXCEPT !.scraped = @ \cup {u}]
  IN IF st.listings[u].exists THEN UpdateExisting(seen, u, p)
     ELSE AddNewProduct(seen, u, p)

\* the item loop of parse_and_save
RECURSIVE ParseItems(_, _)
ParseItems(st, page) ==
  IF page = <<>> THEN st
  ELSE ParseItems(UpdateProductAndDetectDeal(st, Head(page)[1], Head(page)[2]), Tail(page))

\* the ingests of a page that gave listing u a numeric price it did not have
NewPrices(log, u) ==
  Cardinality({i \in DOMAIN log : /\ log[i].url = u
                                   /\ log[i].price # NoPrice
                                   /\ log[i].price # log[i].old.current_price})

Item(w) == UrlsOf(w) \X Observed
\* the product lists of at most n items a page can show (run() leaves the
\* category when the list is empty)
PagesOf(w, n) == UNION {[1..k -> Item(w)] : k \in 1..n}

Event(op, w) == [op |-> op, w |-> w, committed |-> FALSE, log |-> <<>>]

\* parse_and_save: the item loop (left at once when shutdown_event is set), then
\* commit, or rollback when the commit raises
ParseAndSave(w) ==
  /\ pc[w] = "page"
  /\ \E page \in (IF shutdown THEN {<<>>} ELSE PagesOf(w, MaxIngests - ingests)),
        ok \in BOOLEAN :
       LET st == ParseItems([listings |-> listings, hist |-> hist,
                             pend |-> [u \in Urls |-> <<>>],
                             scraped |-> observed[w], log |-> <<>>], page)
           done == Flush(st)
       IN /\ ingests' = ingests + Len(page)
          /\ listings' = IF ok THEN done.listings ELSE listings
          /\ hist' = IF ok THEN done.hist ELSE hist
          /\ observed' = [observed EXCEPT ![w] = st.scraped]
          /\ changes' = [u \in Urls |->
                           IF ok THEN changes[u] + NewPrices(st.log, u) ELSE changes[u]]
          /\ ev' = [op |-> "page", w |-> w, committed |-> ok, log |-> st.log]
  /\ pc' = [pc EXCEPT ![w] = "run"]
  /\ UNCHANGED <<now, mainpc, shutdown, runs, aborted, scrapers, reference,
               skipped, mergeVars, parseVars>>

\* ------------------------------------------------------------ a worker's run
\* run_msy_scraper up to scraper.run(): a session and a scraper are created
StartWorker(w) ==
  /\ pc[w] = "submitted"
  /\ w \in reference.retailers
  /\ pc' = [pc EXCEPT ![w] = "run"]
  /\ ev' = Event("start", w)
  /\ UNCHANGED <<listings, hist, now, mainpc, shutdown, runs, observed, aborted, ingests, changes, scrapers, reference,
               skipped, mergeVars, parseVars>>

\* the constructor's scalar_one() finds no row for the retailer and raises:
\* scraper stays None and the finally clause does not call close()
StartWorkerFails(w) ==
  /\ pc[w] = "submitted"
  /\ w \notin reference.retailers
  /\ pc' = [pc EXCEPT ![w] = "done"]
  /\ ev' = Event("failed", w)
  /\ UNCHANGED <<listings, hist, now, mainpc, shutdown, runs, observed, aborted, ingests, changes, scrapers, reference,
               skipped, mergeVars, parseVars>>

\* run(): "if not category_obj: ... continue", the task is left out
SkipCategory(w) ==
  /\ pc[w] = "run"
  /\ ~shutdown
  /\ SCRAPE_TASKS \ reference.categories # {}
  /\ skipped' = [skipped EXCEPT ![w] = TRUE]
  /\ ev' = Event("skip", w)
  /\ UNCHANGED <<listings, hist, now, mainpc, shutdown, runs, pc, observed, aborted, ingests, changes, scrapers, reference,
               mergeVars, parseVars>>

\* get_page_content returns a page of a task whose category has a row (it
\* returns None once shutdown_event is set)
GetPageContent(w) ==
  /\ pc[w] = "run"
  /\ ~shutdown
  /\ SCRAPE_TASKS \cap reference.categories # {}
  /\ ingests < MaxIngests
  /\ pc' = [pc EXCEPT ![w] = "page"]
  /\ ev' = Event("fetch", w)
  /\ UNCHANGED <<listings, hist, now, mainpc, shutdown, runs, observed, aborted, ingests, changes, scrapers, reference,
               skipped, mergeVars, parseVars>>

\* run() returns because SCRAPE_TASKS and their pages are exhausted: a task
\* whose category has no row has been left out on the way
RunComplete(w) ==
  /\ pc[w] = "run"
  /\ SCRAPE_TASKS \subseteq reference.categories \/ skipped[w]
  /\ pc' = [pc EXCEPT ![w] = "closing"]
  /\ ev' = Event("complete", w)
  /\ UNCHANGED <<listings, hist, now, mainpc, shutdown, runs, observed, aborted, ingests, changes, scrapers, reference,
               skipped, mergeVars, parseVars>>

\* run() returns through "if self.shutdown_event.is_set(): break"
RunAbort(w) ==
  /\ pc[w] = "run"
  /\ shutdown
  /\ pc' = [pc EXCEPT ![w] = "closing"]
  /\ aborted' = [aborted EXCEPT ![w] = TRUE]
  /\ ev' = Event("abort", w)
  /\ UNCHANGED <<listings, hist, now, mainpc, shutdown, runs, observed, ingests, changes, scrapers, reference,
               skipped, mergeVars, parseVars>>

\* ---------------------------------------------------------------- delisting
\* (mutant) the Available products of every retailer are compared
DelistedUrls_AnyRetailer(w) ==
  {u \in Urls : listings[u].exists /\ listings[u].status = AVAILABLE} \ observed[w]

\* (mutant) the URLs scraped in the session are not taken out
DelistedUrls_ScrapedToo(w) ==
  {u \in Urls : /\ listings[u].exists
                /\ UrlRetailer[u] = w
                /\ listings[u].status = AVAILABLE}

\* db_product_urls - self.scraped_product_urls
DelistedUrls(w) ==
  {u \in Urls : /\ listings[u].exists
                /\ UrlRetailer[u] = w
                /\ listings[u].status = AVAILABLE} \ observed[w]

\* (mutant) the bulk update sets the status only
MarkDelistedProducts_StatusOnly(w) ==
  [u \in Urls |-> IF u \in DelistedUrls(w)
                  THEN [listings[u] EXCEPT !.status = UNAVAILABLE]
                  ELSE listings[u]]

\* update(Product).where(Product.url.in_(delisted_urls)).values(...)
MarkDelistedProducts(w) ==
  [u \in Urls |-> IF u \in DelistedUrls(w)
                  THEN [listings[u] EXCEPT !.status = UNAVAILABLE, !.on_sale = FALSE]
                  ELSE listings[u]]

\* close(), called from the finally clause of run_msy_scraper; the bulk update is
\* rolled back when its commit raises
Close(w) ==
  /\ pc[w] = "closing"
  /\ \E ok \in (IF DelistedUrls(w) = {} THEN {TRUE} ELSE BOOLEAN) :
       /\ listings' = IF ok THEN MarkDelistedProducts(w) ELSE listings
       /\ ev' = [Event("close", w) EXCEPT !.committed = ok]
  /\ pc' = [pc EXCEPT ![w] = "done"]
  /\ UNCHANGED <<hist, now, mainpc, shutdown, runs, observed, aborted, ingests, changes, scrapers, reference,
               skipped, mergeVars, parseVars>>

\* ------------------------------------------------------------ run_scraper.main
AllDone == \A w \in scrapers : pc[w] = "done"

\* main(): a fresh shutdown_event, every scraper submitted to the pool
StartRun ==
  /\ mainpc = "idle"
  /\ runs < MaxRuns
  /\ mainpc' = "pool"
  /\ shutdown' = FALSE
  /\ runs' = runs + 1
  /\ pc' = [w \in Retailers |-> IF w \in scrapers THEN "submitted" ELSE "done"]
  /\ observed' = [w \in Retailers |-> {}]
  /\ aborted' = [w \in Retailers |-> FALSE]
  /\ skipped' = [w \in Retailers |-> FALSE]
  /\ ev' = Event("main", 0)
  /\ UNCHANGED <<listings, hist, now, ingests, changes, scrapers, reference, mergeVars, parseVars>>

\* KeyboardInterrupt inside the with-block: the executor's __exit__ joins the
\* workers before the except clause runs
Interrupt ==
  /\ mainpc = "pool"
  /\ mainpc' = "exiting"
  /\ ev' = Event("interrupt", 0)
  /\ UNCHANGED <<listings, hist, now, shutdown, runs, pc, observed, aborted, ingests, changes, scrapers, reference,
               skipped, mergeVars, parseVars>>

\* a second KeyboardInterrupt ends the join; the except clause sets the event
InterruptAgain ==
  /\ mainpc = "exiting"
  /\ ~AllDone
  /\ mainpc' = "handled"
  /\ shutdown' = TRUE
  /\ ev' = Event("interrupt2", 0)
  /\ UNCHANGED <<listings, hist, now, runs, pc, observed, aborted, ingests, changes, scrapers, reference,
               skipped, mergeVars, parseVars>>

\* every worker has returned: main leaves the with-block and returns
MainFinish ==
  /\ mainpc \in {"pool", "exiting", "handled"}
  /\ AllDone
  /\ mainpc' = "idle"
  /\ shutdown' = (shutdown \/ mainpc = "exiting")
  /\ ev' = Event("finish", 0)
  /\ UNCHANGED <<listings, hist, now, runs, pc, observed, aborted, ingests, changes, scrapers, reference,
               skipped, mergeVars, parseVars>>

\* more than the 30 days of the average pass between two invocations of main
Tick ==
  /\ mainpc = "idle"
  /\ runs < MaxRuns
  /\ now < runs * (WINDOW_DAYS + 1)
  /\ now' = now + WINDOW_DAYS + 1
  /\ ev' = Event("tick", 0)
  /\ UNCHANGED <<listings, hist, mainpc, shutdown, runs, pc, observed, aborted, ingests, changes, scrapers, reference,
               skipped, mergeVars, parseVars>>

\* the tables as the scrapers expect them: a row for every retailer and for
\* every category a task names
Seeded == [retailers |-> Retailers, categories |-> SCRAPE_TASKS]

\* empty products and price_history tables, main() not yet invoked
Storage(s, r) ==
  /\ listings = [u \in Urls |-> NoListing]
  /\ hist = [u \in Urls |-> <<>>]
  /\ now = 0
  /\ mainpc = "idle"
  /\ shutdown = FALSE
  /\ runs = 0
  /\ pc = [w \in Retailers |-> "done"]
  /\ observed = [w \in Retailers |-> {}]
  /\ aborted = [w \in Retailers |-> FALSE]
  /\ ingests = 0
  /\ changes = [u \in Urls |-> 0]
  /\ scrapers = s
  /\ reference = r
  /\ skipped = [w \in Retailers |-> FALSE]
  /\ ev = Event("init", 0)

ScrapeInit == Storage({1}, Seeded)

ScrapeNext ==
  \/ StartRun
  \/ Interrupt
  \/ InterruptAgain
  \/ MainFinish
  \/ Tick
  \/ \E w \in Retailers : StartWorker(w)
  \/ \E w \in Retailers : GetPageContent(w)
  \/ \E w \in Retailers : ParseAndSave(w)
  \/ \E w \in Retailers : RunComplete(w)
  \/ \E w \in Retailers : RunAbort(w)
  \/ \E w \in Retailers : Close(w)

\* ======================================================= the product merger
Resolvers  == {1, 2}
Categories == {1, 2}
ProductIds == 1..MaxProducts

Names == {"MSI RTX 4070 Ventus 2X", "MSI RTX 4070 Ventus 3X",
          "MSI RTX 4070 Ventus 2X OC", "MSI RTX 4070 Ventus 3X OC"}
\* a name of the same model that another retailer gives it, and the names of
\* a table that has it
WhiteEdition == "MSI RTX 4070 Ventus 2X White 12GB"
LateNames   == {"MSI RTX 4070 Ventus 2X OC", WhiteEdition}
TwoFan      == {"MSI RTX 4070 Ventus 2X", "MSI RTX 4070 Ventus 2X OC", WhiteEdition}
Overclocked == {"MSI RTX 4070 Ventus 2X OC", "MSI RTX 4070 Ventus 3X OC"}

NoKey == ""      \* normalized_model NULL or empty

\* normalize_model_strict of the model parsed from the name: the brand is parsed
\* off, "oc", "ventus", "white" and "12gb" are stripped as noise
StrictKey(name) == IF name \in TwoFan THEN "rtx 4070 2x" ELSE "rtx 4070 3x"

\* len(p.name)
NameLen(name) == IF name = WhiteEdition THEN 33 ELSE IF name \in Overclocked THEN 25 ELSE 22

\* fuzz.token_set_ratio on the names above: 100 when one token set contains the
\* other, else the rounded ratio of the two sorted token strings
TokenSetRatio(a, b) ==
  IF WhiteEdition \in {a, b} /\ a # b
  THEN LET other == IF a = WhiteEdition THEN b ELSE a
       IN IF other \in TwoFan THEN (IF other \in Overclocked THEN 94 ELSE 100)
          ELSE (IF other \in Overclocked THEN 86 ELSE 93)
  ELSE IF (a \in TwoFan) = (b \in TwoFan) THEN 100
  ELSE IF a \in Overclocked /\ b \in Overclocked THEN 96
  ELSE IF a \notin Overclocked /\ b \notin Overclocked THEN 95
  ELSE 93

NoProduct == [exists |-> FALSE, name |-> "", category_id |-> 0, normalized_model |-> NoKey]

\* a run that is not in progress has no local variables; again records that
\* the run returned at once and the run before it had ended without an error,
\* log what the loop of Pass 2 did in the category handled last; attach and new
\* are the association rows and merged products pending in the run's session
Idle == [stage |-> "idle", input |-> <<>>, left |-> <<>>, cats |-> <<>>, again |-> FALSE,
         log |-> <<>>, attach |-> {}, new |-> <<>>]

Range(s) == {s[i] : i \in DOMAIN s}

\* rows come back in primary-key order
RECURSIVE QueryOrder(_)
QueryOrder(S) ==
  IF S = {} THEN <<>>
  ELSE LET m == CHOOSE x \in S : \A y \in S : x <= y
       IN <<m>> \o QueryOrder(S \ {m})

\* select(Product).where(~Product.merged_products.any())
Unmerged ==
  {p \in ProductIds : /\ products[p].exists
                      /\ \A i \in DOMAIN merged : p \notin merged[i].products}

\* ------------------------------------------------------------------- Pass 1
\* product.normalized_model and product.normalized_model.strip()
HasKey(p) == products[p].normalized_model # NoKey

GroupKey(p) == <<products[p].category_id, products[p].normalized_model>>

\* groups_by_normalized_model[key]
Group(input, key) == SelectSeq(input, LAMBDA p : HasKey(p) /\ GroupKey(p) = key)

\* the first product of each group, in the insertion order of the dictionary
Leaders(input) ==
  SelectSeq(input, LAMBDA p : HasKey(p) /\ Group(input, GroupKey(p))[1] = p)

\* max([p.name for p in listings], key=len): the first of the longest names
CanonicalName(members) ==
  LET i == CHOOSE i \in DOMAIN members : \A j \in DOMAIN members :
             \/ NameLen(products[members[j]].name) < NameLen(products[members[i]].name)
             \/ /\ NameLen(products[members[j]].name) = NameLen(products[members[i]].name)
                /\ i <= j
  IN products[members[i]].name

\* (mutant) the new merged product is given its first listing only
NewGroup_FirstOnly(members) ==
  [canonical_name |-> CanonicalName(members),
   category_id |-> products[members[1]].category_id,
   products |-> {members[1]}]

\* MergedProduct(canonical_name=..., category_id=category_id, products=listings)
NewGroup(members) ==
  [canonical_name |-> CanonicalName(members),
   category_id |-> products[members[1]].category_id,
   products |-> Range(members)]

\* the groups with len(listings) > 1
Matched(input) ==
  SelectSeq(Leaders(input), LAMBDA p : Len(Group(input, GroupKey(p))) > 1)

Pass1Groups(input) ==
  [i \in 1..Len(Matched(input)) |-> NewGroup(Group(input, GroupKey(Matched(input)[i])))]

\* (mutant) the groups of one are not handed to Pass 2
ProductsLeftOver_KeylessOnly(input) == SelectSeq(input, LAMBDA p : ~HasKey(p))

\* products_left_over: the products without a key, then the groups of one
ProductsLeftOver(input) ==
  SelectSeq(input, LAMBDA p : ~HasKey(p))
    \o SelectSeq(Leaders(input), LAMBDA p : Len(Group(input, GroupKey(p))) = 1)

\* ------------------------------------------------------------------- Pass 2
\* products_by_category[category_id], and its keys in insertion order
InCategory(left, c) == SelectSeq(left, LAMBDA p : products[p].category_id = c)

CategoryOrder(left) ==
  LET first == SelectSeq(left, LAMBDA p : InCategory(left, products[p].category_id)[1] = p)
  IN [i \in 1..Len(first) |-> products[first[i]].category_id]

\* (mutant) the merged products of every category are compared
ExistingInCategory_Any(st, c) == 1..st.visible

\* select(MergedProduct).where(MergedProduct.category_id == category_id): the
\* rows of the table, not the objects pending in the session
ExistingInCategory(st, c) == {i \in 1..st.visible : st.merged[i].category_id = c}

\* the first row with the highest score, 0 when there is none
BestMatch(st, c, name) ==
  LET existing == ExistingInCategory(st, c)
      score(i) == TokenSetRatio(name, st.merged[i].canonical_name)
  IN IF existing = {} THEN 0
     ELSE CHOOSE i \in existing : \A j \in existing :
            score(j) < score(i) \/ (score(j) = score(i) /\ i <= j)

\* select(MergedProduct).where(MergedProduct.canonical_name == product.name)
GlobalMatch(st, name) == {i \in 1..st.visible : st.merged[i].canonical_name = name}

\* (mutant) the match must score above the threshold
IsMatch_Above(highest_score, best_match) ==
  highest_score > SIMILARITY_THRESHOLD /\ best_match # 0

\* highest_score >= SIMILARITY_THRESHOLD and best_match
IsMatch(highest_score, best_match) ==
  highest_score >= SIMILARITY_THRESHOLD /\ best_match # 0

\* (mutant) the product list of the merged product is assigned, not appended to
Attach_Replace(st, i, p) == [st EXCEPT !.merged[i].products = {p}]

\* best_match.products.append(product), global_match.products.append(product)
Attach(st, i, p) == [st EXCEPT !.merged[i].products = @ \cup {p}]

\* what one pass of the loop body saw and did: the session's merged products
\* (rows and pending objects) before and after, and how many of them are rows
Sorted(st, p, best_match, highest_score, done) ==
  [p |-> p, seen |-> st.merged, visible |-> st.visible, best |-> best_match,
   score |-> highest_score, then |-> done.merged, failed |-> done.failed]

\* the body of the loop over products_in_category
SortProduct(st, p) ==
  LET product == products[p]
      best_match == BestMatch(st, product.category_id, product.name)
      highest_score == IF best_match = 0 THEN 0
                       ELSE TokenSetRatio(product.name, st.merged[best_match].canonical_name)
      global_match == GlobalMatch(st, product.name)
      done ==
        IF IsMatch(highest_score, best_match)
        THEN Attach(st, best_match, p)
        ELSE IF Cardinality(global_match) > 1
        THEN [st EXCEPT !.failed = TRUE]          \* scalar_one_or_none() raises
        ELSE IF global_match # {}
        THEN Attach(st, CHOOSE i \in global_match : TRUE, p)
        ELSE [st EXCEPT !.merged = Append(@, [canonical_name |-> product.name,
                                              category_id |-> product.category_id,
                                              products |-> {p}])]
  IN IF st.failed \/ \E i \in DOMAIN st.merged : p \in st.merged[i].products
     THEN st
     ELSE [done EXCEPT !.log = Append(@, Sorted(st, p, best_match, highest_score, done))]

RECURSIVE SortCategory(_, _)
SortCategory(st, left) ==
  IF left = <<>> THEN st
  ELSE SortCategory(SortProduct(st, Head(left)), Tail(left))

\* (mutant) the query for the products to merge returns every product
AllUnmergedProducts_Every == QueryOrder({p \in ProductIds : products[p].exists})

\* all_unmerged_products
AllUnmergedProducts == QueryOrder(Unmerged)

\* ------------------------------------------------------------------ actions
\* a scraper or an import stores a product; its normalized_model is unset or
\* the strict key of its model (main runs the merger when the scrapers are done)
AddProduct ==
  /\ \A r \in Resolvers : merge[r].stage \in {"idle", "done", "failed"}
  /\ \E p \in ProductIds, name \in Names, c \in Categories :
     \E key \in {NoKey, StrictKey(name)} :
       /\ ~products[p].exists
       /\ \A q \in ProductIds : q < p => products[q].exists
       /\ products' = [products EXCEPT ![p] =
            [exists |-> TRUE, name |-> name, category_id |-> c, normalized_model |-> key]]
  /\ added' = TRUE
  /\ UNCHANGED <<merged, merge, mergers, scrapeVars, parseVars>>

\* the same over the names of a table that has the other retailer's name
AddLateProduct ==
  /\ \A r \in Resolvers : merge[r].stage \in {"idle", "done", "failed"}
  /\ \E p \in ProductIds, name \in LateNames, c \in Categories :
     \E key \in {NoKey, StrictKey(name)} :
       /\ ~products[p].exists
       /\ \A q \in ProductIds : q < p => products[q].exists
       /\ products' = [products EXCEPT ![p] =
            [exists |-> TRUE, name |-> name, category_id |-> c, normalized_model |-> key]]
  /\ added' = TRUE
  /\ UNCHANGED <<merged, merge, mergers, scrapeVars, parseVars>>

\* the query for the unmerged products; the run returns at once when there are none
MergeQuery(r) ==
  /\ r \in mergers
  /\ merge[r].stage \in {"idle", "done", "failed"}
  /\ added' = FALSE
  /\ merge' = [merge EXCEPT ![r] =
       IF AllUnmergedProducts = <<>>
       THEN [Idle EXCEPT !.stage = "done", !.again = (merge[r].stage = "done")]
       ELSE [Idle EXCEPT !.stage = "pass1", !.input = AllUnmergedProducts]]
  /\ UNCHANGED <<products, merged, mergers, scrapeVars, parseVars>>

\* Pass 1 and its commit; an exception ends the run with a rollback
Pass1(r) ==
  /\ merge[r].stage = "pass1"
  /\ LET groups == Pass1Groups(merge[r].input)
         left == ProductsLeftOver(merge[r].input)
     IN \E ok \in (IF groups = <<>> THEN {TRUE} ELSE BOOLEAN) :
          /\ merged' = IF ok THEN merged \o groups ELSE merged
          /\ merge' = [merge EXCEPT ![r] =
               IF ok THEN [@ EXCEPT !.stage = "pass2", !.left = left,
                                    !.cats = CategoryOrder(left)]
               ELSE [Idle EXCEPT !.stage = "failed"]]
  /\ UNCHANGED <<products, added, mergers, scrapeVars, parseVars>>

\* Pass 2 for the next category and its commit; an exception (of the exact-name
\* lookup or of the commit) ends the run with a rollback of the category
Pass2Category(r) ==
  /\ merge[r].stage = "pass2"
  /\ merge[r].cats # <<>>
  /\ LET st == SortCategory([merged |-> merged, visible |-> Len(merged), failed |-> FALSE,
                             log |-> <<>>],
                            InCategory(merge[r].left, Head(merge[r].cats)))
     IN \E ok \in (IF st.failed THEN {FALSE} ELSE BOOLEAN) :
          /\ merged' = IF ok THEN st.merged ELSE merged
          /\ merge' = [merge EXCEPT ![r] =
               IF ok THEN [@ EXCEPT !.cats = Tail(@), !.log = st.log]
               ELSE [Idle EXCEPT !.stage = "failed", !.log = st.log]]
  /\ UNCHANGED <<products, added, mergers, scrapeVars, parseVars>>

\* what the session holds when the loop over a category is through: the
\* memberships added to rows of the table and the merged products added
Pending(st) ==
  [attach |-> {x \in (1..st.visible) \X ProductIds :
                 x[2] \in st.merged[x[1]].products \ merged[x[1]].products},
   new |-> SubSeq(st.merged, st.visible + 1, Len(st.merged))]

\* (mutant) a merged product whose name the table already has is not inserted
Commit_UniqueName(m, attach, new) ==
  [i \in 1..Len(m) |->
     [m[i] EXCEPT !.products = @ \cup {p \in ProductIds : <<i, p>> \in attach}]]
    \o SelectSeq(new, LAMBDA n : \A i \in DOMAIN m : m[i].canonical_name # n.canonical_name)

\* db_session.commit(): the pending rows are written to the tables as they are
\* at that moment
Commit(m, attach, new) ==
  [i \in 1..Len(m) |->
     [m[i] EXCEPT !.products = @ \cup {p \in ProductIds : <<i, p>> \in attach}]]
    \o new

\* the loop of Pass 2 over the next category, up to its commit: the queries
\* of the loop read the tables as other sessions have committed them
Pass2Sort(r) ==
  /\ merge[r].stage = "pass2"
  /\ merge[r].cats # <<>>
  /\ LET st == SortCategory([merged |-> merged, visible |-> Len(merged), failed |-> FALSE,
                             log |-> <<>>],
                            InCategory(merge[r].left, Head(merge[r].cats)))
     IN merge' = [merge EXCEPT ![r] =
          IF st.failed THEN [Idle EXCEPT !.stage = "failed", !.log = st.log]
          ELSE [@ EXCEPT !.stage = "sorted", !.log = st.log,
                         !.attach = Pending(st).attach, !.new = Pending(st).new]]
  /\ UNCHANGED <<products, merged, added, mergers, scrapeVars, parseVars>>

\* the commit of the category; an exception ends the run with a rollback
Pass2Commit(r) ==
  /\ merge[r].stage = "sorted"
  /\ \E ok \in BOOLEAN :
       /\ merged' = IF ok THEN Commit(merged, merge[r].attach, merge[r].new) ELSE merged
       /\ merge' = [merge EXCEPT ![r] =
            IF ok THEN [@ EXCEPT !.stage = "pass2", !.cats = Tail(@),
                                 !.attach = {}, !.new = <<>>]
            ELSE [Idle EXCEPT !.stage = "failed", !.log = merge[r].log]]
  /\ UNCHANGED <<products, added, mergers, scrapeVars, parseVars>>

\* every category is done: the run ends without an error
MergeComplete(r) ==
  /\ merge[r].stage = "pass2"
  /\ merge[r].cats = <<>>
  /\ merge' = [merge EXCEPT ![r] = [Idle EXCEPT !.stage = "done"]]
  /\ UNCHANGED <<products, merged, added, mergers, scrapeVars, parseVars>>

MergeInit ==
  /\ products = [p \in ProductIds |-> NoProduct]
  /\ merged = <<>>
  /\ merge = [r \in Resolvers |-> Idle]
  /\ added = FALSE
  /\ mergers = {1}

MergeNext ==
  \/ AddProduct
  \/ \E r \in Resolvers : MergeQuery(r)
  \/ \E r \in Resolvers : Pass1(r)
  \/ \E r \in Resolvers : Pass2Category(r)
  \/ \E r \in Resolvers : MergeComplete(r)

\* ------------------------------------------------------ utils/parsing.py
\* a Python str is the sequence of its characters
UpperCase == <<"A", "B", "C", "D", "E", "F", "G", "H", "I", "J", "K", "L", "M",
               "N", "O", "P", "Q", "R", "S", "T", "U", "V", "W", "X", "Y", "Z">>
LowerCase == <<"a", "b", "c", "d", "e", "f", "g", "h", "i", "j", "k", "l", "m",
               "n", "o", "p", "q", "r", "s", "t", "u", "v", "w", "x", "y", "z">>
Digits == {"0", "1", "2", "3", "4", "5", "6", "7", "8", "9"}
Whitespace == {" "}
Range26 == DOMAIN UpperCase

\* str.lower()
LowerChar(c) == IF \E i \in Range26 : UpperCase[i] = c
                THEN LowerCase[CHOOSE i \in Range26 : UpperCase[i] = c]
                ELSE c
Lower(str) == [i \in DOMAIN str |-> LowerChar(str[i])]

IsLowerLetter(c) == \E i \in Range26 : LowerCase[i] = c
\* \w, in a string that lower() has been applied to
IsWord(c) == IsLowerLetter(c) \/ c \in Digits \/ c = "_"

Drop(str, n) == SubSeq(str, n + 1, Len(str))
StartsWith(str, prefix) == Len(str) >= Len(prefix) /\ SubSeq(str, 1, Len(prefix)) = prefix

\* the length of the longest prefix of str made of characters of the set
RECURSIVE RunLength(_, _)
RunLength(str, set) ==
  IF str # <<>> /\ Head(str) \in set THEN 1 + RunLength(Tail(str), set) ELSE 0

\* "sub in str"
Contains(str, sub) == \E i \in 0..(Len(str) - Len(sub)) : StartsWith(Drop(str, i), sub)

\* str.replace(old, ''): the occurrences of old are removed from left to right
RECURSIVE Replace(_, _)
Replace(str, old) ==
  IF Len(str) < Len(old) THEN str
  ELSE IF StartsWith(str, old) THEN Replace(Drop(str, Len(old)), old)
  ELSE <<Head(str)>> \o Replace(Tail(str), old)

NORMALIZATION_STRIP_KEYWORDS_STRICT == <<
  <<"O", "C">>, <<"E", "d", "i", "t", "i", "o", "n">>, <<"G", "a", "m", "i", "n", "g">>,
  <<"P", "r", "o">>, <<"F", "o", "u", "n", "d", "e", "r", "s">>, <<"S", "t", "r", "i", "x">>,
  <<"T", "U", "F">>, <<"R", "O", "G">>, <<"A", "o", "r", "u", "s">>,
  <<"W", "i", "n", "d", "f", "o", "r", "c", "e">>, <<"E", "a", "g", "l", "e">>,
  <<"V", "i", "s", "i", "o", "n">>, <<"V", "e", "n", "t", "u", "s">>,
  <<"S", "u", "p", "r", "i", "m">>, <<"T", "r", "i", "o">>,
  <<"G", "r", "a", "p", "h", "i", "c", "s", " ", "C", "a", "r", "d">>, <<"C", "P", "U">>,
  <<"P", "r", "o", "c", "e", "s", "s", "o", "r">>, <<"C", "o", "o", "l", "e", "r">>,
  <<"B", "l", "a", "c", "k">>, <<"W", "h", "i", "t", "e">>, <<"R", "G", "B">>,
  <<"A", "R", "G", "B">>, <<"D", "D", "R", "4">>, <<"D", "D", "R", "5">>,
  <<"G", "D", "D", "R", "6", "X">>, <<"G", "D", "D", "R", "7">>, <<"P", "C", "I", "e">>,
  <<"G", "e", "n", "4">>, <<"G", "e", "n", "5">>,
  <<"w", "i", "t", "h", " ", "C", "o", "o", "l", "e", "r">>,
  <<"(", "N", "o", " ", "C", "o", "o", "l", "e", "r", ")">>, <<"W", "O", "F">> >>

NORMALIZATION_STRIP_KEYWORDS_LOOSE == NORMALIZATION_STRIP_KEYWORDS_STRICT \o <<
  <<"c", "o", "r", "e">>, <<"t", "h", "r", "e", "a", "d", "s">>, <<"g", "h", "z">>,
  <<"m", "a", "t", "x">>, <<"a", "t", "x">>, <<"i", "t", "x">>, <<"w", "i", "f", "i">> >>

\* for keyword in keywords: normalized = normalized.replace(keyword.lower(), '')
RECURSIVE StripKeywords(_, _)
StripKeywords(normalized, keywords) ==
  IF keywords = <<>> THEN normalized
  ELSE StripKeywords(Replace(normalized, Lower(Head(keywords))), Tail(keywords))

\* the length of the match of \d+\s*(gb|mb|mhz|cl\d+) at the start of str,
\* 0 when there is none
StrictSpecLength(str) ==
  LET d == RunLength(str, Digits)
      s == RunLength(Drop(str, d), Whitespace)
      unit == Drop(str, d + s)
  IN IF d = 0 THEN 0
     ELSE IF StartsWith(unit, <<"g", "b">>) \/ StartsWith(unit, <<"m", "b">>) THEN d + s + 2
     ELSE IF StartsWith(unit, <<"m", "h", "z">>) THEN d + s + 3
     ELSE IF StartsWith(unit, <<"c", "l">>) /\ RunLength(Drop(unit, 2), Digits) > 0
          THEN d + s + 2 + RunLength(Drop(unit, 2), Digits)
     ELSE 0

\* re.sub(r'\d+\s*(gb|mb|mhz|cl\d+)', '', str)
RECURSIVE SubStrictSpecs(_)
SubStrictSpecs(str) ==
  IF str = <<>> THEN <<>>
  ELSE IF StrictSpecLength(str) > 0 THEN SubStrictSpecs(Drop(str, StrictSpecLength(str)))
  ELSE <<Head(str)>> \o SubStrictSpecs(Tail(str))

LooseUnits == {<<"c", "o", "r", "e">>, <<"t", "h", "r", "e", "a", "d">>, <<"g", "h", "z">>,
               <<"m", "h", "z">>, <<"g", "b">>, <<"m", "b">>}

\* the length of the match of \d+(\-|\s)?(core|thread|ghz|mhz|gb|mb)\b at the
\* start of str, 0 when there is none
LooseSpecLength(str) ==
  LET d == RunLength(str, Digits)
      s == IF Len(str) > d /\ str[d + 1] \in {"-"} \cup Whitespace THEN 1 ELSE 0
      rest == Drop(str, d + s)
      units == {u \in LooseUnits : /\ StartsWith(rest, u)
                                  /\ (Len(rest) = Len(u) \/ ~IsWord(rest[Len(u) + 1]))}
  IN IF d = 0 \/ units = {} THEN 0
     ELSE d + s + Len(CHOOSE u \in units : TRUE)

\* re.sub(r'\b\d+(\-|\s)?(core|thread|ghz|mhz|gb|mb)\b', '', str); word tells
\* whether the character before str is one of a word
RECURSIVE SubLooseSpecs(_, _)
SubLooseSpecs(str, word) ==
  IF str = <<>> THEN <<>>
  ELSE IF ~word /\ LooseSpecLength(str) > 0
       THEN SubLooseSpecs(Drop(str, LooseSpecLength(str)), TRUE)
  ELSE <<Head(str)>> \o SubLooseSpecs(Tail(str), IsWord(Head(str)))

\* re.sub(r'[^a-z0-9\s]', '', str)
SubNotAlnum(str) ==
  SelectSeq(str, LAMBDA c : IsLowerLetter(c) \/ c \in Digits \/ c \in Whitespace)

\* re.sub(r'\s+', ' ', str).strip(); space tells whether the character before
\* str is whitespace (or str is the start of the string)
RECURSIVE SubSpaces(_, _)
SubSpaces(str, space) ==
  IF str = <<>> THEN <<>>
  ELSE IF Head(str) \in Whitespace
       THEN IF space \/ RunLength(str, Whitespace) = Len(str)
            THEN SubSpaces(Tail(str), TRUE)
            ELSE <<" ">> \o SubSpaces(Tail(str), TRUE)
  ELSE <<Head(str)>> \o SubSpaces(Tail(str), FALSE)

normalize_model_strict(model_string) ==
  IF model_string = <<>> THEN <<>>
  ELSE SubSpaces(SubNotAlnum(SubStrictSpecs(
         StripKeywords(Lower(model_string), NORMALIZATION_STRIP_KEYWORDS_STRICT))), TRUE)

normalize_model_loose(model_string) ==
  IF model_string = <<>> THEN <<>>
  ELSE SubSpaces(SubNotAlnum(SubLooseSpecs(
         StripKeywords(Lower(model_string), NORMALIZATION_STRIP_KEYWORDS_LOOSE), FALSE)), TRUE)

NoFormFactor == "none"

\* _parse_motherboard, the form factor: the first probe that succeeds
FormFactor(name) ==
  LET name_lower == Lower(name)
  IN IF \/ Contains(name_lower, <<"e", "-", "a", "t", "x">>)
        \/ Contains(name_lower, <<"e", "a", "t", "x">>) THEN "E-ATX"
     ELSE IF /\ Contains(name_lower, <<"a", "t", "x">>)
             /\ ~Contains(name_lower, <<"m", "i", "c", "r", "o", "-", "a", "t", "x">>) THEN "ATX"
     ELSE IF \/ Contains(name_lower, <<"m", "i", "c", "r", "o", "-", "a", "t", "x">>)
             \/ Contains(name_lower, <<"m", "a", "t", "x">>) THEN "Micro-ATX"
     ELSE IF \/ Contains(name_lower, <<"m", "i", "n", "i", "-", "i", "t", "x">>)
             \/ Contains(name_lower, <<"m", "i", "t", "x">>) THEN "Mini-ITX"
     ELSE NoFormFactor

\* the model strings the normalizations are called on
Chars == {"O", "o", "c", "8", "-", "g", "b", " "}
Strings == UNION {[1..n -> Chars] : n \in 0..MaxLen}

\* the product names _parse_motherboard is called on: words with a space
\* between them
Words == {<<"A", "S", "U", "S">>, <<"B", "7", "6", "0", "M">>, <<"A", "T", "X">>,
          <<"m", "A", "T", "X">>, <<"M", "i", "c", "r", "o", "-", "A", "T", "X">>,
          <<"E", "-", "A", "T", "X">>, <<"E", "A", "T", "X">>,
          <<"M", "i", "n", "i", "-", "I", "T", "X">>, <<"m", "I", "T", "X">>}
RECURSIVE Join(_)
Join(words) ==
  IF words = <<>> THEN <<>>
  ELSE IF Len(words) = 1 THEN Head(words)
  ELSE Head(words) \o <<" ">> \o Join(Tail(words))
BoardNames == {Join(ws) : ws \in UNION {[1..n -> Words] : n \in 1..MaxWords}}

NotParsing == fn = "none" /\ arg = <<>> /\ out = <<>> /\ form_factor = NoFormFactor /\ calls = 0

\* a model string for the normalizations or a product name for
\* _parse_motherboard
ParseInit ==
  /\ ScrapeInit
  /\ MergeInit
  /\ fn = "none"
  /\ arg \in Strings \cup BoardNames
  /\ out = <<>>
  /\ form_factor = NoFormFactor
  /\ calls = 0

NormalizeStrict ==
  /\ calls = 0
  /\ arg \in Strings
  /\ fn' = "normalize_model_strict"
  /\ out' = normalize_model_strict(arg)
  /\ calls' = 1
  /\ UNCHANGED <<arg, form_factor, scrapeVars, mergeVars>>

NormalizeLoose ==
  /\ calls = 0
  /\ arg \in Strings
  /\ fn' = "normalize_model_loose"
  /\ out' = normalize_model_loose(arg)
  /\ calls' = 1
  /\ UNCHANGED <<arg, form_factor, scrapeVars, mergeVars>>

\* the function is called on what it returned
NormalizeAgain ==
  /\ calls = 1
  /\ fn \in {"normalize_model_strict", "normalize_model_loose"}
  /\ arg' = out
  /\ out' = IF fn = "normalize_model_strict" THEN normalize_model_strict(out)
            ELSE normalize_model_loose(out)
  /\ calls' = 2
  /\ UNCHANGED <<fn, form_factor, scrapeVars, mergeVars>>

ParseMotherboard ==
  /\ calls = 0
  /\ arg \in BoardNames
  /\ fn' = "_parse_motherboard"
  /\ form_factor' = FormFactor(arg)
  /\ calls' = 1
  /\ UNCHANGED <<arg, out, scrapeVars, mergeVars>>

ParseNext == NormalizeStrict \/ NormalizeLoose \/ NormalizeAgain \/ ParseMotherboard

vars == <<scrapeVars, mergeVars, parseVars>>

\* the state after the schema is created: no rows, nothing running
Init == ScrapeInit /\ MergeInit /\ NotParsing

\* the scrapers, run by run_scraper.main
Next == ScrapeNext
Spec == Init /\ [][Next]_vars

\* a listing stored by an earlier session, with the history row of its price
Stored == [exists |-> TRUE, current_price |-> 1170, previous_price |-> 1170,
           status |-> AVAILABLE, on_sale |-> TRUE]

\* the last invocation of main(), with the scrapers of two retailers in the
\* pool, over tables in which earlier sessions have stored listings, one
\* ingest each
ConcInit ==
  /\ \E stored \in SUBSET Urls :
       /\ ingests = Cardinality(stored)
       /\ listings = [u \in Urls |-> IF u \in stored THEN Stored ELSE NoListing]
       /\ hist = [u \in Urls |-> IF u \in stored THEN Rows(<<Stored.current_price>>, 0)
                                  ELSE <<>>]
       /\ changes = [u \in Urls |-> IF u \in stored THEN 1 ELSE 0]
  /\ now = 0
  /\ mainpc = "idle"
  /\ shutdown = FALSE
  /\ runs = MaxRuns - 1
  /\ pc = [w \in Retailers |-> "done"]
  /\ observed = [w \in Retailers |-> {}]
  /\ aborted = [w \in Retailers |-> FALSE]
  /\ scrapers = Retailers
  /\ reference = Seeded
  /\ skipped = [w \in Retailers |-> FALSE]
  /\ ev = Event("init", 0)
  /\ MergeInit
  /\ NotParsing

\* the invocation runs undisturbed: the operator does not interrupt it
ConcNext ==
  \/ StartRun
  \/ MainFinish
  \/ \E w \in Retailers : StartWorker(w)
  \/ \E w \in Retailers : GetPageContent(w)
  \/ \E w \in Retailers : ParseAndSave(w)
  \/ \E w \in Retailers : RunComplete(w)
  \/ \E w \in Retailers : Close(w)

ConcSpec == ConcInit /\ [][ConcNext]_vars

\* two runs of the merger at the same time over products stored before, none
\* of them with a normalized_model
RaceInit ==
  /\ ScrapeInit
  /\ NotParsing
  /\ products \in [ProductIds -> [exists : {TRUE}, name : Names, category_id : Categories,
                                   normalized_model : {NoKey}]]
  /\ merged = <<>>
  /\ merge = [r \in Resolvers |-> Idle]
  /\ added = TRUE
  /\ mergers = Resolvers

RaceNext ==
  \/ \E r \in Resolvers : MergeQuery(r)
  \/ \E r \in Resolvers : Pass1(r)
  \/ \E r \in Resolvers : Pass2Sort(r)
  \/ \E r \in Resolvers : Pass2Commit(r)
  \/ \E r \in Resolvers : MergeComplete(r)

\* runs of the merger, one at a time, over products that reach the table
\* between them under the names of two retailers
LateNext ==
  \/ AddLateProduct
  \/ \E r \in Resolvers : MergeQuery(r)
  \/ \E r \in Resolvers : Pass1(r)
  \/ \E r \in Resolvers : Pass2Category(r)
  \/ \E r \in Resolvers : MergeComplete(r)

LateSpec == Init /\ [][LateNext]_vars

\* one string and the calls of the functions of utils/parsing.py on it
ParseSpec == ParseInit /\ [][ParseNext]_vars

RaceSpec == RaceInit /\ [][RaceNext]_vars

\* the scrapers over tables in which reference rows may be missing
RefInit ==
  /\ \E r \in [retailers : SUBSET {1}, categories : SUBSET SCRAPE_TASKS] : Storage({1}, r)
  /\ MergeInit
  /\ NotParsing

RefNext ==
  \/ ScrapeNext
  \/ \E w \in Retailers : StartWorkerFails(w)
  \/ \E w \in Retailers : SkipCategory(w)

RefSpec == RefInit /\ [][RefNext]_vars

\* the merger, on the products stored so far
MergeSpec == Init /\ [][MergeNext]_vars

\* ===================================================================== claims
\* the ingests performed by the page handled last
LogEvents == {ev.log[i] : i \in DOMAIN ev.log}

\* the prices of the listing's history when the ingest ran: the stored rows and
\* the rows added earlier in the same page, in insertion order
Recorded(e) == [i \in 1..Len(e.visible) |-> e.visible[i].price] \o e.pending

\* the history rows the ingest appended
Appended(e) == Len(e.then) - Len(e.pending)

\* the step in which worker w executes close()
Closes(w) == pc[w] = "closing" /\ pc'[w] = "done"

\* C1: a worker that left run() because the cancellation signal was set does not
\* run the Delisting Tracker: a listing of its retailer that is Available and was
\* not observed in the session keeps its status and its on-sale flag over close().
C1_AbortedSkipsDelisting ==
  [][\A w \in Retailers : \A u \in UrlsOf(w) :
       (/\ Closes(w)
        /\ aborted[w]
        /\ listings[u].exists
        /\ listings[u].status = AVAILABLE
        /\ u \notin observed[w])
       => (/\ listings'[u].status = AVAILABLE
           /\ listings'[u].on_sale = listings[u].on_sale)]_vars

\* C2: when a worker whose run() ended normally executes close() (and the bulk
\* update is committed), every listing of its retailer that is stored Available
\* and was not observed in the session becomes Unavailable with on_sale false.
C2_CompleteSessionDelists ==
  [][\A w \in Retailers : \A u \in UrlsOf(w) :
       (/\ Closes(w)
        /\ ~aborted[w]
        /\ ev'.committed
        /\ listings[u].exists
        /\ listings[u].status = AVAILABLE
        /\ u \notin observed[w])
       => (/\ listings'[u].status = UNAVAILABLE
           /\ listings'[u].on_sale = FALSE)]_vars

\* a complete session has delisted a priced listing it did not observe while
\* another listing of the retailer, observed in the session, stays Available
C2_Witness ==
  /\ ev.op = "close" /\ ev.committed /\ ~aborted[ev.w]
  /\ \E u, v \in UrlsOf(ev.w) :
       /\ listings[u].exists /\ u \notin observed[ev.w]
       /\ listings[u].status = UNAVAILABLE /\ listings[u].current_price # NoPrice
       /\ ~listings[u].on_sale
       /\ v \in observed[ev.w] /\ listings[v].status = AVAILABLE

\* C3: an ingest of an existing listing that observes a numeric price not above
\* any price recorded for it before leaves the listing on sale, whatever its
\* flag, status and stored current price were.
C3_NotAboveHistoryIsOnSale ==
  \A e \in LogEvents :
    (/\ e.old.exists
     /\ e.price # NoPrice
     /\ \A i \in DOMAIN Recorded(e) : e.price <= Recorded(e)[i])
    => e.new.on_sale

\* C4: an ingest that changes an existing listing's price to a numeric value
\* above its previous price, above the minimum of its recorded history and not
\* below the mean of its history entries of the last 30 days leaves it not on sale.
C4_NoReasonIsNotOnSale ==
  \A e \in LogEvents :
    LET recent == [i \in 1..Len(e.visible) |-> e.visible[i]] \o Rows(e.pending, now)
        rows == Recent(recent, now)
    IN (/\ e.old.exists
        /\ e.price # NoPrice
        /\ e.old.current_price # NoPrice
        /\ e.price > e.old.current_price
        /\ \E i \in DOMAIN Recorded(e) : e.price > Recorded(e)[i]
        /\ e.price * Len(rows) >= SumPrices(rows))
       => ~e.new.on_sale

\* C5 as stated: an ingest of an existing listing appends exactly one history
\* row if the observed price differs from the stored current price and none if
\* it is equal.
C5_AppendedIffDiffers ==
  \A e \in LogEvents :
    e.old.exists =>
      Appended(e) = (IF e.price # e.old.current_price THEN 1 ELSE 0)

\* C5 amended: an ingest appends exactly one history row, holding the observed
\* price, if that price is numeric and differs from the stored current price
\* (unset for a listing that does not exist yet), and none otherwise; the rows
\* of a listing are as many as the committed ingests that set a new numeric price.
C5_AppendedIffNewNumericPrice ==
  /\ \A e \in LogEvents :
       /\ Appended(e) = (IF e.price # NoPrice /\ e.price # e.old.current_price
                         THEN 1 ELSE 0)
       /\ Appended(e) = 1 => e.then = Append(e.pending, e.price)
       /\ Appended(e) = 0 => e.then = e.pending
  /\ \A u \in Urls : Len(hist[u]) = changes[u]

\* a committed page changed a price to unset (no row) and another ingest of an
\* existing listing changed a price to a number (one row)
C5_Witness ==
  /\ ev.op = "page" /\ ev.committed
  /\ \E e \in LogEvents :
       e.old.exists /\ e.price = NoPrice /\ e.old.current_price # NoPrice
  /\ \E e \in LogEvents :
       e.old.exists /\ e.price # NoPrice /\ e.price # e.old.current_price
       /\ Len(hist[e.url]) >= 2

\* C6: previous_price is the current price the listing had before its most
\* recent price change: an ingest that changes the price stores the old current
\* price, an ingest that observes the stored current price leaves it unchanged.
C6_PreviousPriceOfLastChange ==
  \A e \in LogEvents :
    e.old.exists =>
      e.new.previous_price = (IF e.price # e.old.current_price
                              THEN e.old.current_price
                              ELSE e.old.previous_price)

\* C7: the all-time-low check takes the minimum over the listing's history with
\* the row this ingest appends: an ingest that appends a row whose price is not
\* above any recorded price flags the listing, in particular the first numeric
\* price of an existing listing without history.
C7_LowIncludesAppendedRow ==
  \A e \in LogEvents :
    (/\ e.old.exists
     /\ Appended(e) = 1
     /\ \A i \in DOMAIN Recorded(e) : e.price <= Recorded(e)[i])
    => e.new.on_sale

\* C8: an ingest of a URL without a stored listing creates the listing on sale
\* and, when the price is numeric, appends exactly one row with that price, which
\* is then the whole history of the listing (and its minimum).
C8_NewListingOnSale ==
  /\ \A e \in LogEvents :
       ~e.old.exists =>
         /\ e.new.exists /\ e.new.on_sale
         /\ e.new.current_price = e.price
         /\ e.visible = <<>> /\ e.pending = <<>>
         /\ e.then = (IF e.price # NoPrice THEN <<e.price>> ELSE <<>>)
  /\ (ev.op = "page" /\ ev.committed /\ Len(ev.log) = 1 /\ ~ev.log[1].old.exists)
       => /\ listings[ev.log[1].url] = ev.log[1].new
          /\ hist[ev.log[1].url] = Rows(ev.log[1].then, now)

\* a committed page created a listing with a numeric price
C8_Witness ==
  /\ ev.op = "page" /\ ev.committed
  /\ \E e \in LogEvents :
       /\ ~e.old.exists /\ e.price # NoPrice
       /\ listings[e.url].exists /\ Len(hist[e.url]) >= 1

\* C9: in a run of the merger, once Pass 1 is committed and as long as Pass 2
\* goes on, any two products of the run's input with the same category and the
\* same non-empty normalized_model are members of one and the same merged
\* product, and no other merged product contains either of them.
C9_SharedKeySameMergedProduct ==
  \A r \in Resolvers :
    merge[r].stage = "pass2" =>
      \A p, q \in Range(merge[r].input) :
        (p # q /\ HasKey(p) /\ GroupKey(p) = GroupKey(q)) =>
          \E i \in DOMAIN merged :
            /\ {p, q} \subseteq merged[i].products
            /\ \A j \in DOMAIN merged :
                 j # i => (p \notin merged[j].products /\ q \notin merged[j].products)

\* Pass 1 has grouped two products with different names under the longer name
\* and left a third product of the input for Pass 2
C9_Witness ==
  \E r \in Resolvers :
    /\ merge[r].stage = "pass2"
    /\ merge[r].left # <<>>
    /\ \E p, q \in Range(merge[r].input) :
         /\ p < q /\ HasKey(p) /\ GroupKey(p) = GroupKey(q)
         /\ NameLen(products[p].name) < NameLen(products[q].name)
         /\ \E i \in DOMAIN merged :
              /\ merged[i].products = {p, q}
              /\ merged[i].canonical_name = products[q].name

\* C10: when a run of the merger has ended without an error and no product was
\* added since it queried its input, the next run returns at once: it creates
\* no merged product and adds no membership.
C10_SecondRunAddsNothing ==
  [][\A r \in Resolvers :
       (merge[r].stage = "done" /\ ~added) =>
         (merged' = merged /\ merge'[r].stage = "done")]_vars

\* a second run has returned at once after a first run that grouped products in
\* Pass 1 and created a merged product of one member in Pass 2
C10_Witness ==
  /\ ~added
  /\ \E r \in Resolvers : merge[r].stage = "done" /\ merge[r].again
  /\ \E i, j \in DOMAIN merged :
       Cardinality(merged[i].products) = 2 /\ Cardinality(merged[j].products) = 1

\* the merged products a product is a member of
MergedProductsOf(m, p) == {i \in DOMAIN m : p \in m[i].products}

\* C11: with one run of the merger at a time, no product is ever a member of
\* two merged products, and when a run ends without an error every product of
\* its input is a member of exactly one merged product.
C11_InputInExactlyOneMergedProduct ==
  [][/\ \A p \in ProductIds : Cardinality(MergedProductsOf(merged', p)) <= 1
     /\ \A r \in Resolvers :
          (merge[r].stage = "pass2" /\ merge'[r].stage = "done") =>
            \A p \in Range(merge[r].input) :
              Cardinality(MergedProductsOf(merged', p)) = 1]_vars

\* a run has ended without an error after both passes gave products a merged
\* product: a group of two from Pass 1 and a product sorted in Pass 2
C11_Witness ==
  /\ \E r \in Resolvers : merge[r].stage = "done" /\ ~merge[r].again
  /\ \A p \in ProductIds :
       products[p].exists /\ Cardinality(MergedProductsOf(merged, p)) = 1
  /\ \E i, j \in DOMAIN merged :
       /\ i # j
       /\ Cardinality(merged[i].products) = 2
       /\ \E p \in merged[j].products : HasKey(p)

\* C12: no step of a run of the merger deletes a merged product, renames it,
\* removes a member from it, or changes the merged product of a product that
\* has one: the member sets only grow.
C12_MembershipOnlyGrows ==
  [][/\ Len(merged') >= Len(merged)
     /\ \A i \in DOMAIN merged :
          /\ merged[i].products \subseteq merged'[i].products
          /\ merged'[i].canonical_name = merged[i].canonical_name
          /\ merged'[i].category_id = merged[i].category_id
     /\ \A p \in ProductIds :
          MergedProductsOf(merged, p) # {} =>
            MergedProductsOf(merged', p) = MergedProductsOf(merged, p)]_vars

\* Pass 2 has committed a category in which a product joined a merged product
\* that already had members, and those members are still there
C12_Witness ==
  \E r \in Resolvers :
    /\ merge[r].stage = "pass2"
    /\ \E k \in DOMAIN merge[r].log :
         LET e == merge[r].log[k]
         IN /\ e.best \in 1..e.visible
            /\ e.seen[e.best].products # {}
            /\ e.p \notin e.seen[e.best].products
            /\ merged[e.best].products = e.seen[e.best].products \cup {e.p}

\* the passes of the loop of Pass 2 in the category handled last
SortLog == UNION {Range(merge[r].log) : r \in Resolvers}

\* the merged products the pass has made the product a member of
JoinedBy(e) == {i \in DOMAIN e.seen : e.p \in e.then[i].products}

\* C13: in Pass 2 a product becomes a member of the best-scoring merged product
\* of its category exactly when that best score is at least 96: at 96 it is
\* attached to it (and to nothing else), at 95 or less it is not attached to it.
C13_AttachedIffBestScoreAtLeast96 ==
  \A e \in SortLog :
    /\ e.best # 0 =>
         /\ e.seen[e.best].category_id = products[e.p].category_id
         /\ e.score = TokenSetRatio(products[e.p].name, e.seen[e.best].canonical_name)
         /\ \A i \in 1..e.visible :
              e.seen[i].category_id = products[e.p].category_id =>
                TokenSetRatio(products[e.p].name, e.seen[i].canonical_name) <= e.score
    /\ e.score >= 96 <=> (e.best # 0 /\ e.best \in JoinedBy(e))
    /\ e.score >= 96 => JoinedBy(e) = {e.best}

\* a product whose best score in its category was exactly 96 has been attached
\* to that merged product and the category has been committed
C13_Witness ==
  \E r \in Resolvers :
    /\ merge[r].stage = "pass2"
    /\ \E e \in Range(merge[r].log) :
         /\ e.score = SIMILARITY_THRESHOLD
         /\ MergedProductsOf(merged, e.p) = {e.best}
         /\ merged[e.best].canonical_name # products[e.p].name

\* C14: when Pass 2 has committed a category, every product sorted in it was
\* compared with all merged products the session held at that point, those
\* created earlier in the same loop included, and two products sorted in it
\* whose names score at least 96 against each other are members of the same
\* merged product.
C14_SimilarLeftoversShareMergedProduct ==
  \A r \in Resolvers :
    merge[r].stage = "pass2" =>
      \A e, f \in Range(merge[r].log) :
        /\ e.visible = Len(e.seen)
        /\ TokenSetRatio(products[e.p].name, products[f.p].name) >= SIMILARITY_THRESHOLD
             => MergedProductsOf(merged, e.p) = MergedProductsOf(merged, f.p)

\* the merged products of the table that carry exactly the product's name
SameName(e) == {i \in 1..e.visible : e.seen[i].canonical_name = products[e.p].name}

\* C15: in Pass 2 a product whose best score in its category is below 96 is
\* attached to a merged product of the table with exactly its name when there
\* is one, in whatever category, and a new merged product holding just this
\* product is created only when there is none.
C15_ExactNameElseNew ==
  \A e \in SortLog :
    e.score < SIMILARITY_THRESHOLD =>
      IF SameName(e) # {}
      THEN /\ Len(e.then) = Len(e.seen)
           /\ \E i \in SameName(e) : JoinedBy(e) = {i}
      ELSE /\ Len(e.then) = Len(e.seen) + 1
           /\ JoinedBy(e) = {}
           /\ e.then[Len(e.then)] = [canonical_name |-> products[e.p].name,
                                      category_id |-> products[e.p].category_id,
                                      products |-> {e.p}]

\* C17: when the loop over a category of Pass 2 ran without an exception and
\* the commit of that category fails while other categories remain, the run
\* does not end: it goes on with the categories that remain.
C17_CommitFailureKeepsRunGoing ==
  [][\A r \in Resolvers :
       ( /\ merge[r].stage = "pass2" /\ Len(merge[r].cats) > 1
         /\ merge'[r] # merge[r]
         /\ \A e \in Range(merge'[r].log) : ~e.failed )
       => /\ merge'[r].stage = "pass2"
          /\ merge'[r].cats = Tail(merge[r].cats)]_vars

\* C16: when the deal detection runs for a listing, the significant-drop reason
\* holds exactly when the listing had a price before this change and the new
\* price is below 90% of it: a drop of exactly 10% does not give the reason,
\* any larger drop does.
C16_DropIffBelowNinetyPercent ==
  \A e \in LogEvents :
    (e.old.exists /\ Appended(e) = 1) =>
      (e.drop <=> /\ e.old.current_price # NoPrice
                  /\ e.price * 100 < e.old.current_price * DROP_PERCENT)

\* main() has received a KeyboardInterrupt in this invocation
Interrupted(m) == m \in {"exiting", "handled"}

\* C19: once the operator has interrupted a scrape run, shutdown_event is set
\* as long as a worker is still running, and no worker that is between two
\* pages fetches another page.
C19_InterruptStopsWorkers ==
  [][/\ ( /\ Interrupted(mainpc')
          /\ \E w \in scrapers : pc[w] \in {"run", "page"} /\ pc'[w] \in {"run", "page"} )
          => shutdown'
     /\ \A w \in scrapers :
          (Interrupted(mainpc) /\ pc[w] = "run") => pc'[w] # "page"]_vars

\* C18: a worker whose retailer has no row ends without creating, updating or
\* delisting a listing and without calling close(); a worker that finds the
\* category of a task missing changes no listing at that point and runs no
\* delisting for its retailer in that session.
C18_MissingReferenceRowIsFatal ==
  [][\A w \in scrapers :
       /\ (pc[w] = "submitted" /\ w \notin reference.retailers /\ pc'[w] # pc[w])
            => (pc'[w] = "done" /\ listings' = listings /\ hist' = hist)
       /\ (~skipped[w] /\ skipped'[w]) => (listings' = listings /\ hist' = hist)
       /\ (skipped[w] /\ Closes(w)) => listings' = listings]_vars

\* the tables with the rows of retailer w only, as its session finds them when
\* no other worker has ever run
Alone(w) ==
  [listings |-> [u \in Urls |-> IF UrlRetailer[u] = w THEN listings[u] ELSE NoListing],
   hist |-> [u \in Urls |-> IF UrlRetailer[u] = w THEN hist[u] ELSE <<>>],
   pend |-> [u \in Urls |-> <<>>],
   scraped |-> observed[w], log |-> <<>>]

\* the items of the page whose ingests the log records
PageOf(log) == [i \in DOMAIN log |-> <<log[i].url, log[i].price>>]

\* C20: with the workers of two retailers running concurrently, a listing and
\* its price history are written only by committed page and close steps of the
\* worker of the listing's retailer, and what such a step leaves in the rows of
\* its retailer is what it leaves when that worker runs alone.
C20_WorkersWriteOwnRowsOnly ==
  [][/\ \A u \in Urls :
          (listings'[u] # listings[u] \/ hist'[u] # hist[u]) =>
            /\ ev'.op \in {"page", "close"} /\ ev'.committed
            /\ ev'.w = UrlRetailer[u]
     /\ \A w \in scrapers :
          (pc[w] = "page" /\ pc'[w] = "run" /\ ev'.committed) =>
            LET alone == Flush(ParseItems(Alone(w), PageOf(ev'.log)))
            IN \A u \in UrlsOf(w) :
                 listings'[u] = alone.listings[u] /\ hist'[u] = alone.hist[u]
     /\ \A w \in scrapers :
          (Closes(w) /\ ev'.committed) =>
            \A u \in UrlsOf(w) :
              listings'[u] =
                IF listings[u].exists /\ listings[u].status = AVAILABLE /\ u \notin observed[w]
                THEN [listings[u] EXCEPT !.status = UNAVAILABLE, !.on_sale = FALSE]
                ELSE listings[u]]_vars

\* while the worker of retailer 1 is still running and has committed a new
\* price for one of its listings, the worker of retailer 2 has run its
\* delisting and marked its stored listing unavailable
C20_Witness ==
  /\ scrapers = Retailers
  /\ pc[1] \in {"run", "page"} /\ pc[2] = "done"
  /\ \E u \in UrlsOf(1) : u \in observed[1] /\ Len(hist[u]) > 1
  /\ \E u \in UrlsOf(2) : listings[u].exists /\ listings[u].status = UNAVAILABLE

\* C21: two runs of the merger at the same time each create a merged product
\* for one product name. A run that found no match for a product holds a new
\* merged product in its session, and its commit appends every such merged
\* product to the table whatever another run has committed since the lookup by
\* name: nothing excludes a second merged product of the same name and the
\* same product.
C21_CommitAppendsWhateverOthersCommitted ==
  [][\A r \in Resolvers :
       (merge[r].stage = "sorted" /\ merge'[r].stage = "pass2") =>
         /\ Len(merged') = Len(merged) + Len(merge[r].new)
         /\ SubSeq(merged', Len(merged) + 1, Len(merged')) = merge[r].new]_vars

\* both runs have committed: two merged products of one name hold one product
C21_Witness ==
  /\ \A r \in Resolvers : merge[r].stage \in {"pass2", "idle"} /\ merge[r].log # <<>>
  /\ \E i, j \in DOMAIN merged :
       /\ i < j
       /\ merged[i].canonical_name = merged[j].canonical_name
       /\ merged[i].products \cap merged[j].products # {}

\* C22: the price history is append-only. Every step (a page of items, a
\* delisting, a run of the merger) leaves the rows a product's history had, their
\* prices, dates and order, as the prefix of its history.
C22_HistoryIsAppendOnly ==
  [][\A u \in Urls :
       /\ Len(hist'[u]) >= Len(hist[u])
       /\ SubSeq(hist'[u], 1, Len(hist[u])) = hist[u]]_vars

\* a committed page has appended a row of another price and date to a history
C22_Witness ==
  /\ ev.op = "page" /\ ev.committed
  /\ \E i \in DOMAIN ev.log :
       LET u == ev.log[i].url
       IN /\ Appended(ev.log[i]) = 1
          /\ Len(hist[u]) >= 2
          /\ hist[u][Len(hist[u])].price # hist[u][1].price
          /\ hist[u][Len(hist[u])].date # hist[u][1].date

\* C23: in every committed state of the tables, also the one a failed commit of
\* a page leaves, a product whose current_price is set has a price history whose
\* last row has that price: the update of the product and the row of the
\* history are written by one commit or not at all.
C23_CurrentPriceIsLastHistoryPrice ==
  \A u \in Urls :
    (listings[u].exists /\ listings[u].current_price # NoPrice) =>
      /\ hist[u] # <<>>
      /\ hist[u][Len(hist[u])].price = listings[u].current_price

\* the commit of a page that gave a stored product another price has failed:
\* the product has the price it had and its history ends with it
C23_Witness ==
  /\ ev.op = "page" /\ ~ev.committed
  /\ \E i \in DOMAIN ev.log :
       LET e == ev.log[i]
       IN /\ e.old.exists /\ e.old.current_price # NoPrice
          /\ e.price # NoPrice /\ e.price # e.old.current_price
          /\ Appended(e) = 1
          /\ listings[e.url].current_price = e.old.current_price
          /\ hist[e.url][Len(hist[e.url])].price = e.old.current_price

\* C24: normalize_model_strict and normalize_model_loose are idempotent: called
\* on what it returned for any string, the empty one too, each of them returns
\* its argument.
C24_NormalizeIsIdempotent ==
  (calls = 2 /\ fn \in {"normalize_model_strict", "normalize_model_loose"}) => out = arg

\* C25: the probes for the form factor of a motherboard are in an order that
\* keeps overlapping substrings apart: a name gets ATX only if it has none of
\* "e-atx", "eatx", "micro-atx" and "matx", and a name that has "micro-atx" or
\* "matx" and neither "e-atx" nor "eatx" gets Micro-ATX.
C25_FormFactorProbesDoNotOverlap ==
  LET has(sub) == Contains(Lower(arg), sub)
      eatx == has(<<"e", "-", "a", "t", "x">>) \/ has(<<"e", "a", "t", "x">>)
      matx == has(<<"m", "i", "c", "r", "o", "-", "a", "t", "x">>) \/ has(<<"m", "a", "t", "x">>)
  IN fn = "_parse_motherboard" =>
       /\ form_factor = "ATX" => ~eatx /\ ~matx
       /\ (matx /\ ~eatx) => form_factor = "Micro-ATX"

\* C26: close() of the worker of retailer w changes only products of w that
\* were stored Available and were not scraped in the session. Products scraped
\* in the session, products already Unavailable, products of other retailers,
\* every price and every price history stay as they are, and
\* mark_delisted_products called again with the same scraped URLs changes
\* nothing.
C26_DelistingChangesOnlyMissingAvailable ==
  [][\A w \in Retailers :
       Closes(w) =>
         /\ \A u \in Urls :
              /\ listings'[u] # listings[u] =>
                   /\ UrlRetailer[u] = w
                   /\ listings[u].exists /\ listings[u].status = AVAILABLE
                   /\ u \notin observed[w]
              /\ listings'[u].exists = listings[u].exists
              /\ listings'[u].current_price = listings[u].current_price
              /\ listings'[u].previous_price = listings[u].previous_price
              /\ hist'[u] = hist[u]
         /\ observed'[w] = observed[w]
         /\ ev'.committed => (MarkDelistedProducts(w) = listings)']_vars

\* a committed close() has delisted a product of its retailer while a product
\* it scraped and an Available product of the other retailer are as they were
C26_Witness ==
  /\ ev.op = "close" /\ ev.committed
  /\ \E u, v \in UrlsOf(ev.w), x \in Urls \ UrlsOf(ev.w) :
       /\ listings[u].exists /\ u \notin observed[ev.w]
       /\ listings[u].status = UNAVAILABLE /\ listings[u].current_price # NoPrice
       /\ hist[u] # <<>>
       /\ v \in observed[ev.w] /\ listings[v].status = AVAILABLE
       /\ listings[x].exists /\ listings[x].status = AVAILABLE
       /\ x \notin observed[ev.w]

\* C27: in every state that ingests and delistings reach, a product with
\* on_sale true has the status Available and a numeric current_price; an
\* ingest that stores a product whose price could not be parsed (no price,
\* status Unavailable) leaves it with on_sale false.
C27_OnSaleIsAvailableAndPriced ==
  \A u \in Urls :
    (listings[u].exists /\ listings[u].on_sale) =>
      /\ listings[u].status = AVAILABLE
      /\ listings[u].current_price # NoPrice

C29_CanonicalNamesAreUnique ==
  /\ \A i, j \in DOMAIN merged :
       merged[i].canonical_name = merged[j].canonical_name => i = j
  /\ \A r \in Resolvers : \A k \in DOMAIN merge[r].log : ~merge[r].log[k].failed

\* C30: two products of one category with the same non-empty normalized_model
\* end up in the same merged product also when they reach the merger in
\* different runs, the first one merged before the second one is stored.
C30_SameKeyEndsUpTogetherAcrossRuns ==
  \A p, q \in ProductIds :
    (/\ products[p].exists /\ products[q].exists
     /\ products[p].category_id = products[q].category_id
     /\ products[p].normalized_model # NoKey
     /\ products[p].normalized_model = products[q].normalized_model
     /\ \E i \in DOMAIN merged : p \in merged[i].products
     /\ \E j \in DOMAIN merged : q \in merged[j].products)
    => \E i \in DOMAIN merged : {p, q} \subseteq merged[i].products
====
